---- MODULE Spec2Model ----
(***************************************************************************)
(* Flight_Optimization: the two orchestrators (main.main, main1.run) that  *)
(* drive one browser session over a roster of cities or a catalog of       *)
(* routes, the site adapters they call (fetch_price, search_kenya,         *)
(* search_ethiopian and the stubs) and the two output sinks (the workbook  *)
(* sheet FlightQuotes and the file flight_quotes.csv).                     *)
(*                                                                         *)
(* Text is a sequence of one-character strings, so that the conversions    *)
(* of the code (split, replace, strip, re.sub, float, int) are computed    *)
(* and not assumed.  A price is carried in hundredths (float("850") is     *)
(* 85000); the texts of the model have at most two decimals, no sign and   *)
(* no exponent.                                                            *)
(***************************************************************************)
EXTENDS Integers, Sequences, FiniteSets, TLC

VARIABLES
    prog,      \* which entry point runs: "main", "main1" or "adapter" (a direct call)
    pc,        \* position of the run
    cities,    \* main: unique_cities, the roster labels in sheet order
    ci,        \* main: index of the city the outer loop is at
    di,        \* main: index of the departure date the inner loop is at
    headcount, \* main: headcount of the current city
    pax,       \* main: passenger count of the current city
    rows,      \* main: the list rows
    sheet,     \* the FlightQuotes sheet of the workbook
    nroutes,   \* main1: len(routes)
    ri,        \* main1: index of the route the outer loop is at
    r,         \* main1: the route record the outer loop is at
    todo,      \* main1: the airlines of r the inner loop has yet to take
    csv,       \* the lines of flight_quotes.csv
    prior,     \* what the output sink held before the run
    launched,  \* the browser was started
    quits,     \* number of driver.quit() calls so far
    writes,    \* number of writes to the output sink so far
    returned,  \* the quotes returned so far by the adapter calls that did not raise
    trail,     \* what the last step did with the browser and the clock
    report,    \* what the last step reported (logging, print)
    got        \* the adapter call of the last step: what was sent, what came back

vars == << prog, pc, cities, ci, di, headcount, pax, rows, sheet, nroutes, ri, r, todo,
           csv, prior, launched, quits, writes, returned, trail, report, got >>

----------------------------------------------------------------------------
(* Bounds of the model *)

MaxCities == 2
MaxRoutes == 2
MaxAirlines == 2
MaxCards == 4

----------------------------------------------------------------------------
(* Text *)

DigitChars == << "0", "1", "2", "3", "4", "5", "6", "7", "8", "9" >>

IsDigit(c) == \E i \in 1..10 : DigitChars[i] = c

DigitVal(c) == (CHOOSE i \in 1..10 : DigitChars[i] = c) - 1

IsSpace(c) == c = " "

UpperChars ==
    << "A", "B", "C", "D", "E", "F", "G", "H", "I", "J", "K", "L", "M",
       "N", "O", "P", "Q", "R", "S", "T", "U", "V", "W", "X", "Y", "Z" >>

LowerChars ==
    << "a", "b", "c", "d", "e", "f", "g", "h", "i", "j", "k", "l", "m",
       "n", "o", "p", "q", "r", "s", "t", "u", "v", "w", "x", "y", "z" >>

IsUpper(c) == \E i \in 1..26 : UpperChars[i] = c

IsLower(c) == \E i \in 1..26 : LowerChars[i] = c

\* \w of a regular expression: a letter, a digit or the underscore
IsWord(c) == IsDigit(c) \/ IsUpper(c) \/ IsLower(c) \/ c = "_"

\* str.lower() of one character
LowerChar(c) ==
    IF IsUpper(c) THEN LowerChars[CHOOSE i \in 1..26 : UpperChars[i] = c] ELSE c

Lower(s) == [ i \in 1..Len(s) |-> LowerChar(s[i]) ]

\* sub in s
Contains(s, sub) ==
    \E i \in 1..(Len(s) - Len(sub) + 1) : SubSeq(s, i, i + Len(sub) - 1) = sub

\* s.replace(c, "") for a one-character c
RemoveChar(s, c) == SelectSeq(s, LAMBDA x : x # c)

RECURSIVE RemoveSub(_, _)
\* s.replace(sub, "") for a non-empty sub: leftmost occurrences, not overlapping
RemoveSub(s, sub) ==
    IF Len(s) < Len(sub) THEN s
    ELSE IF SubSeq(s, 1, Len(sub)) = sub
         THEN RemoveSub(SubSeq(s, Len(sub) + 1, Len(s)), sub)
         ELSE << s[1] >> \o RemoveSub(Tail(s), sub)

RECURSIVE LStrip(_)
LStrip(s) == IF s # << >> /\ IsSpace(s[1]) THEN LStrip(Tail(s)) ELSE s

RECURSIVE RStrip(_)
RStrip(s) ==
    IF s # << >> /\ IsSpace(s[Len(s)]) THEN RStrip(SubSeq(s, 1, Len(s) - 1)) ELSE s

\* s.strip()
Strip(s) == RStrip(LStrip(s))

\* The length of the leading run of non-blank characters of t
WordLen(t) ==
    IF \E i \in 1..Len(t) : IsSpace(t[i])
    THEN (CHOOSE i \in 1..Len(t) : IsSpace(t[i]) /\ \A j \in 1..(i - 1) : ~IsSpace(t[j])) - 1
    ELSE Len(t)

RECURSIVE SplitWords(_)
\* The words of a text that starts with no blank
SplitWords(t) ==
    IF t = << >> THEN << >>
    ELSE << SubSeq(t, 1, WordLen(t)) >> \o SplitWords(LStrip(SubSeq(t, WordLen(t) + 1, Len(t))))

\* s.split(): the maximal runs of non-blank characters
Split(s) == SplitWords(LStrip(s))

RECURSIVE ToNat(_)
ToNat(s) == IF s = << >> THEN 0 ELSE 10 * ToNat(SubSeq(s, 1, Len(s) - 1)) + DigitVal(s[Len(s)])

\* What a conversion gives: a value, or the exception it raises.
Value(v) == [ exc |-> "none", val |-> v ]

Raise(e) == [ exc |-> e, val |-> 0 ]

\* float of the digits ip before the point and the digits fp after it, in
\* hundredths: digits only, and at least one
FloatOf(ip, fp) ==
    IF /\ \A i \in 1..Len(ip) : IsDigit(ip[i])
       /\ \A i \in 1..Len(fp) : IsDigit(fp[i])
       /\ Len(ip) + Len(fp) >= 1
    THEN Value(100 * ToNat(ip)
               + (IF fp = << >> THEN 0
                  ELSE IF Len(fp) = 1 THEN 10 * ToNat(fp) ELSE ToNat(SubSeq(fp, 1, 2))))
    ELSE Raise("ValueError")

\* The place of the first point of t, Len(t) + 1 when it has none
PointAt(t) ==
    IF \E i \in 1..Len(t) : t[i] = "."
    THEN CHOOSE i \in 1..Len(t) : t[i] = "." /\ \A j \in 1..(i - 1) : t[j] # "."
    ELSE Len(t) + 1

\* float of a text without blanks around
FloatStripped(t) ==
    FloatOf(SubSeq(t, 1, PointAt(t) - 1), SubSeq(t, PointAt(t) + 1, Len(t)))

\* float(s), in hundredths: blanks around are ignored; a text that is not digits
\* with at most one point raises ValueError
PyFloat(s) == FloatStripped(Strip(s))

\* int of a text without blanks around
IntStripped(t) ==
    IF t # << >> /\ \A i \in 1..Len(t) : IsDigit(t[i]) THEN Value(ToNat(t))
    ELSE Raise("ValueError")

\* int(s): blanks around are ignored, then digits only; anything else raises ValueError
PyInt(s) == IntStripped(Strip(s))

----------------------------------------------------------------------------
(* config.py *)

DEPARTURE_DATES ==
    << << "2", "0", "2", "5", "-", "0", "7", "-", "0", "6" >>,
       << "2", "0", "2", "5", "-", "0", "7", "-", "0", "7" >> >>

RETURN_DATE == << "2", "0", "2", "5", "-", "0", "7", "-", "0", "9" >>

CURRENCY == "USD"

----------------------------------------------------------------------------
(* main.py: the helpers *)

\* None of Python, where a text is expected
None == << >>

\* The places of city where "(", three word characters and ")" follow each other
CodeGroups(city) ==
    { i \in 1..(Len(city) - 4) :
        /\ city[i] = "("
        /\ \A k \in 1..3 : IsWord(city[i + k])
        /\ city[i + 4] = ")" }

\* clean_code(city): the three word characters of the leftmost "(xxx)", lowered;
\* None when the label holds no such group.
clean_code(city) ==
    IF CodeGroups(city) = {} THEN None
    ELSE Lower(SubSeq(city, (CHOOSE i \in CodeGroups(city) : \A j \in CodeGroups(city) : i <= j) + 1,
                      (CHOOSE i \in CodeGroups(city) : \A j \in CodeGroups(city) : i <= j) + 3))

\* make_url(origin, dep_date, ret_date, pax): the parts of the URL that vary
make_url(origin, dep_date, ret_date, p) ==
    [ site     |-> "skyscanner",
      origin   |-> origin,
      dest     |-> << "a", "c", "c" >>,
      dep      |-> RemoveChar(dep_date, "-"),
      ret      |-> RemoveChar(ret_date, "-"),
      adults   |-> p,
      currency |-> CURRENCY ]

\* re.sub(r"[^\d\.]", "", text)
StripNonNumeric(text) == SelectSeq(text, LAMBDA c : IsDigit(c) \/ c = ".")

\* What a listing page can show to fetch_price: nothing within WAIT_PRICE seconds,
\* or a first listing card with a price text and, when has_airline, an airline name.
ListingPage(price_text, has_airline, airline_text) ==
    [ stage |-> "listing", price |-> price_text,
      has_airline |-> has_airline, airline |-> airline_text ]

ListingTimeout == [ stage |-> "timeout", price |-> None, has_airline |-> FALSE, airline |-> None ]

\* fetch_price once the price text is there: price_val is float(re.sub(...))
FetchPriced(page, price_val) ==
    IF price_val.exc # "none"
    THEN [ exc |-> price_val.exc, airline |-> None, price |-> 0 ]
    ELSE IF ~page.has_airline
    THEN [ exc |-> "NoSuchElementException", airline |-> None, price |-> 0 ]
    ELSE [ exc |-> "none", airline |-> Strip(page.airline), price |-> price_val.val ]

\* fetch_price(driver, url) on a page: the exception raised, or (airline, price_val)
fetch_price(page, url) ==
    IF page.stage = "timeout"
    THEN [ exc |-> "TimeoutException", airline |-> None, price |-> 0 ]
    ELSE FetchPriced(page, PyFloat(StripNonNumeric(page.price)))

----------------------------------------------------------------------------
(* main1.py: the adapters *)

\* No query was sent
NoQuery ==
    [ site |-> "none", origin |-> None, dest |-> None, dep |-> None, ret |-> None,
      adults |-> 0, currency |-> "" ]

\* The passenger count a Kenya Airways search carries when the form's selector is
\* opened and left alone ("default = 1")
SITE_DEFAULT_PAX == 1

\* A result card as rendered: the sub-elements it has, and their texts
Card(has, price, stops, duration) ==
    [ has |-> has, price |-> price, stops |-> stops, duration |-> duration ]

\* What a site can show to an adapter: a booking form that never becomes
\* clickable, a form lacking a control, no result card within the wait, or a
\* non-empty list of result cards in the site's own order.
SitePage(stage, cards) == [ stage |-> stage, cards |-> cards ]

\* What an adapter call gives: the exception it raises or the quotes it returns,
\* what it did with the browser and the clock, and the query it sent.
Returned(quotes, did, query) ==
    [ exc |-> "none", quotes |-> quotes, trail |-> did, query |-> query ]

Raised(e, did, query) ==
    [ exc |-> e, quotes |-> << >>, trail |-> did, query |-> query ]

\* The quote of a card, once its price and its stops are converted
CardQuote(card, price, stops) ==
    IF stops.exc # "none" THEN Raise(stops.exc)
    ELSE IF "duration" \notin card.has THEN Raise("NoSuchElementException")
    ELSE Value([ price |-> price.val, stops |-> stops.val, duration |-> card.duration ])

\* search_ethiopian's loop body after the price: int(stops_txt.split()[0])
EthiopianStops(card, price) ==
    IF price.exc # "none" THEN Raise(price.exc)
    ELSE IF "stops" \notin card.has THEN Raise("NoSuchElementException")
    ELSE IF Split(card.stops) = << >> THEN Raise("IndexError")
    ELSE CardQuote(card, price, PyInt(Split(card.stops)[1]))

\* price_txt.split()[-1]
LastWord(words) == words[Len(words)]

\* One pass of the loop body of search_ethiopian on a card
ethiopian_card(card) ==
    IF "price" \notin card.has THEN Raise("NoSuchElementException")
    ELSE IF Split(card.price) = << >> THEN Raise("IndexError")
    ELSE EthiopianStops(card, PyFloat(RemoveChar(LastWord(Split(card.price)), ",")))

\* A loop over cards: q is what the body gave for the first card, rest what the
\* loop gives for the others; the first card that raises ends the loop and the call
LoopStep(q, rest) ==
    IF q.exc # "none" THEN Raise(q.exc)
    ELSE IF rest.exc # "none" THEN Raise(rest.exc)
    ELSE Value(<< q.val >> \o rest.val)

RECURSIVE ethiopian_cards(_)
\* The loop of search_ethiopian over the cards it is given
ethiopian_cards(cards) ==
    IF cards = << >> THEN Value(<< >>)
    ELSE LoopStep(ethiopian_card(Head(cards)), ethiopian_cards(Tail(cards)))

\* cards[:3]
First3(seq) == SubSeq(seq, 1, IF Len(seq) < 3 THEN Len(seq) ELSE 3)

\* What an adapter gives once the query url was sent with the browser's doings did:
\* a timeout of the wait for the cards, or what the loop found
AfterWait(page, found, did, url) ==
    IF page.stage # "cards" THEN Raised("TimeoutException", did, url)
    ELSE IF found.exc # "none" THEN Raised(found.exc, did, url)
    ELSE Returned(found.val, did, url)

\* search_ethiopian(driver, r) on a page
search_ethiopian(page, route) ==
    AfterWait(page, ethiopian_cards(First3(page.cards)), << "get" >>,
              [ site     |-> "ethiopian",
                origin   |-> route.origin,
                dest     |-> route.dest,
                dep      |-> route.depart[1],
                ret      |-> route.return,
                adults   |-> route.adults,
                currency |-> "USD" ])

\* search_kenya's loop body after the price: 0 for "Non-stop", else int(stops.split()[0])
KenyaStops(card, price) ==
    IF price.exc # "none" THEN Raise(price.exc)
    ELSE IF "stops" \notin card.has THEN Raise("NoSuchElementException")
    ELSE IF Contains(card.stops, << "N", "o", "n", "-", "s", "t", "o", "p" >>)
    THEN CardQuote(card, price, Value(0))
    ELSE IF Split(card.stops) = << >> THEN Raise("IndexError")
    ELSE CardQuote(card, price, PyInt(Split(card.stops)[1]))

\* One pass of the loop body of search_kenya on a card
kenya_card(card) ==
    IF "price" \notin card.has THEN Raise("NoSuchElementException")
    ELSE KenyaStops(card, PyFloat(Strip(RemoveChar(RemoveSub(card.price, << "U", "S", "D" >>), ","))))

RECURSIVE kenya_cards(_)
\* The loop of search_kenya over the cards it is given
kenya_cards(cards) ==
    IF cards = << >> THEN Value(<< >>)
    ELSE LoopStep(kenya_card(Head(cards)), kenya_cards(Tail(cards)))

\* A search_kenya that would type the last candidate date, r["depart"][-1], into
\* the departure box: not what the code does
search_kenya_last_date(page, route) ==
    IF page.stage = "form_timeout" THEN Raised("TimeoutException", << "get" >>, NoQuery)
    ELSE IF page.stage = "form_missing"
    THEN Raised("NoSuchElementException", << "get", "settle", "settle" >>, NoQuery)
    ELSE AfterWait(page, kenya_cards(First3(page.cards)),
                   << "get", "settle", "settle", "search" >>,
                   [ site     |-> "kenya",
                     origin   |-> route.origin,
                     dest     |-> route.dest,
                     dep      |-> route.depart[Len(route.depart)],
                     ret      |-> route.return,
                     adults   |-> SITE_DEFAULT_PAX,
                     currency |-> "" ])

\* search_kenya(driver, r) on a page: the form is filled with the origin, the
\* destination, the first departure date and the return date; the passenger
\* selector is opened and no count is entered.
search_kenya(page, route) ==
    IF page.stage = "form_timeout" THEN Raised("TimeoutException", << "get" >>, NoQuery)
    ELSE IF page.stage = "form_missing"
    THEN Raised("NoSuchElementException", << "get", "settle", "settle" >>, NoQuery)
    ELSE AfterWait(page, kenya_cards(First3(page.cards)),
                   << "get", "settle", "settle", "search" >>,
                   [ site     |-> "kenya",
                     origin   |-> route.origin,
                     dest     |-> route.dest,
                     dep      |-> route.depart[1],
                     ret      |-> route.return,
                     adults   |-> SITE_DEFAULT_PAX,
                     currency |-> "" ])

\* search_asky, search_africaworld, search_turkish, search_qatar, search_delta
search_stub(page, route) == Returned(<< >>, << >>, NoQuery)

\* The mapping AIRLINE_FUNCS after the module is loaded
AIRLINE_FUNCS ==
    ( "Kenya Airways" :> "search_kenya" ) @@
    ( "ASKY" :> "search_asky" ) @@
    ( "Africa World Airlines" :> "search_africaworld" ) @@
    ( "Turkish Airlines" :> "search_turkish" ) @@
    ( "Qatar Airways" :> "search_qatar" ) @@
    ( "Delta Air Lines" :> "search_delta" )

\* A lookup that would ignore the case of the name, AIRLINE_FUNCS.get(airline.title()):
\* not what the code does
AIRLINE_FUNCS_get_title(airline) ==
    IF airline \in DOMAIN AIRLINE_FUNCS THEN AIRLINE_FUNCS[airline]
    ELSE IF airline = "kenya airways" THEN AIRLINE_FUNCS["Kenya Airways"]
    ELSE "None"

\* AIRLINE_FUNCS.get(airline): the adapter's name, or "None"
AIRLINE_FUNCS_get(airline) ==
    IF airline \in DOMAIN AIRLINE_FUNCS THEN AIRLINE_FUNCS[airline] ELSE "None"

\* func(driver, r)
Invoke(func, page, route) ==
    CASE func = "search_kenya" -> search_kenya(page, route)
      [] func = "search_ethiopian" -> search_ethiopian(page, route)
      [] OTHER -> search_stub(page, route)

----------------------------------------------------------------------------
(* The inputs: what the workbook, routes.json and the sites can hold *)

AccraLabel == << "A", "c", "c", "r", "a", " ", "(", "A", "C", "C", ")" >>
JoburgLabel == << "J", "o", "b", "u", "r", "g", " ", "(", "J", "N", "B", ")" >>
NairobiLabel == << "N", "a", "i", "r", "o", "b", "i", " ", "(", "N", "B", "O", ")" >>
LagosLabel == << "L", "a", "g", "o", "s" >>

CityLabels == { AccraLabel, JoburgLabel, NairobiLabel, LagosLabel }

\* unique_cities: labels in sheet order, none twice
Rosters ==
    UNION { { s \in [ 1..n -> CityLabels ] : \A i, j \in 1..n : s[i] = s[j] => i = j } :
            n \in 0..MaxCities }

\* The headcounts a roster row can hold (an empty cell is not among them: int()
\* raises on it)
Headcounts == { 0, 1, 9, 10, 50 }

ListingPages ==
    { ListingTimeout } \cup
    { ListingPage(pt, ha, << " ", "K", "Q", " " >>) :
        pt \in { << "$", "8", "5", "0", ".", "0", "0" >>, << "N", "/", "A" >> },
        ha \in BOOLEAN }

\* A sheet a previous run left in the workbook
OldSheet ==
    << [ City |-> JoburgLabel, Airline |-> << "K", "Q" >>, ArriveDate |-> DEPARTURE_DATES[1],
         ReturnDate |-> RETURN_DATE, FareType |-> "WebEco", SeatsCapable |-> 2,
         RoundtripCost |-> 70000 ] >>

\* A line of flight_quotes.csv: the header line, or the csv_line of one quote
CsvLine(route, airline, price, stops, duration) ==
    [ kind |-> "row", route |-> route, airline |-> airline, price_usd |-> price,
      stops |-> stops, duration |-> duration ]

HEADER ==
    [ kind |-> "header", route |-> None, airline |-> "", price_usd |-> 0, stops |-> 0,
      duration |-> None ]

\* A file a previous run left
OldCsv ==
    << HEADER,
       CsvLine(<< "j", "n", "b", "-", "a", "c", "c" >>, "Kenya Airways", 70000, 1, << "9", "h" >>) >>

CardA ==
    Card({ "price", "stops", "duration" }, << "U", "S", "D", " ", "8", "5", "0" >>,
         << "1", " ", "S", "t", "o", "p" >>, << "1", "4", "h", " ", "2", "5", "m" >>)

CardB ==
    Card({ "price", "stops", "duration" }, << "1", ",", "2", "3", "4", ".", "5", "0" >>,
         << "N", "o", "n", "-", "s", "t", "o", "p" >>, << "9", "h" >>)

CardNoPrice ==
    Card({ "stops", "duration" }, None, << "1", " ", "S", "t", "o", "p" >>, << "9", "h" >>)

CardBadStops ==
    Card({ "price", "stops", "duration" }, << "U", "S", "D", " ", "8", "5", "0" >>,
         << "D", "i", "r", "e", "c", "t" >>, << "9", "h" >>)

CardKinds == { CardA, CardB, CardNoPrice, CardBadStops }

SitePages ==
    { SitePage(st, << >>) : st \in { "form_timeout", "form_missing", "results_timeout" } }
    \cup UNION { { SitePage("cards", c) : c \in [ 1..n -> CardKinds ] } : n \in 1..MaxCards }

\* A page nobody looks at
BlankPage == SitePage("cards", << >>)

\* The pages a site shows in the course of a run: the cards of a listing are
\* alike, but for those that lack a price
RunPages ==
    { SitePage(st, << >>) : st \in { "form_timeout", "form_missing", "results_timeout" } }
    \cup UNION { { SitePage("cards", c) : c \in [ 1..n -> { CardA, CardNoPrice } ] } :
                 n \in 1..MaxCards }

\* The pages that matter to an adapter in a run: a stub never looks at the browser
PagesFor(func) ==
    IF func \in { "search_kenya", "search_ethiopian" } THEN RunPages ELSE { BlankPage }

Airlines == { "Kenya Airways", "kenya airways", "ASKY" }

AirlineLists == UNION { [ 1..n -> Airlines ] : n \in 0..MaxAirlines }

DepartLists == { DEPARTURE_DATES, << DEPARTURE_DATES[2] >> }

\* A route record of routes.json; has: the keys the record holds among "id" and
\* "airlines" (the other keys are always there)
Route(has, airlines, adults, depart) ==
    [ has |-> has, id |-> "R1", origin |-> << "j", "n", "b" >>, dest |-> << "a", "c", "c" >>,
      depart |-> depart, return |-> RETURN_DATE, adults |-> adults, airlines |-> airlines ]

\* The route records of a run: the adults below and above the cap
RouteSet ==
    { Route(has, al, ad, DEPARTURE_DATES) :
        has \in { { "id", "airlines" }, { "airlines" } },
        al \in AirlineLists, ad \in { 1, 10 } }
    \cup { Route({ "id" }, << >>, ad, DEPARTURE_DATES) : ad \in { 1, 10 } }

\* The route records an adapter is called with on its own (it reads no airline list)
DirectRoutes ==
    { Route({ "id", "airlines" }, << >>, ad, dp) : ad \in Headcounts, dp \in DepartLists }

NoRoute == Route({ }, << >>, 0, << >>)

----------------------------------------------------------------------------
(* The state before a run *)

\* No adapter was called in the step. Of a call: the function, what the site showed
\* (stage; page too when the adapter is called on its own), the exception raised,
\* the quotes returned and the query sent.
NoCall ==
    [ func |-> "none", stage |-> "none", page |-> BlankPage, exc |-> "none",
      quotes |-> << >>, query |-> NoQuery ]

Init ==
    /\ prog \in { "main", "main1", "adapter" }
    /\ pc = "start"
    /\ cities \in (IF prog = "main" THEN Rosters ELSE { << >> })
    /\ sheet \in (IF prog = "main" THEN { << >>, OldSheet } ELSE { << >> })
    /\ nroutes \in (IF prog = "main1" THEN 0..MaxRoutes ELSE { 0 })
    /\ csv \in (IF prog = "main1" THEN { << >>, OldCsv } ELSE { << >> })
    /\ prior = (IF prog = "main" THEN sheet ELSE csv)
    /\ ci = 0
    /\ di = 0
    /\ headcount = 0
    /\ pax = 0
    /\ rows = << >>
    /\ ri = 0
    /\ r = NoRoute
    /\ todo = << >>
    /\ launched = FALSE
    /\ quits = 0
    /\ writes = 0
    /\ returned = << >>
    /\ trail = << >>
    /\ report = << >>
    /\ got = NoCall

\* A step that calls no adapter and leaves the browser and the clock alone
NoAdapter == trail' = << >> /\ got' = NoCall

----------------------------------------------------------------------------
(* main.py: main() *)

\* min(headcount, 9)
ClampPax(h) == IF h < 9 THEN h ELSE 9

\* dict(City=..., Airline=..., ...) appended to rows
QuoteRow(city, airline, dep, p, price) ==
    [ City |-> city, Airline |-> airline, ArriveDate |-> dep, ReturnDate |-> RETURN_DATE,
      FareType |-> "WebEco", SeatsCapable |-> p, RoundtripCost |-> price ]

\* read_excel, rows = [], launch_driver(): the browser starts, or the run ends there
MainStart ==
    /\ prog = "main" /\ pc = "start"
    /\ \E started \in BOOLEAN :
        IF started
        THEN /\ launched' = TRUE
             /\ report' = << [ kind |-> "info", text |-> "Chrome driver launched" ] >>
             /\ ci' = 1
             /\ pc' = "city"
        ELSE /\ pc' = "raised"
             /\ report' = << >>
             /\ UNCHANGED << launched, ci >>
    /\ NoAdapter
    /\ UNCHANGED << prog, cities, di, headcount, pax, rows, sheet, nroutes, ri, r, todo,
                    csv, prior, quits, writes, returned >>

\* The outer loop is over: control reaches the finally block
MainLoopEnd ==
    /\ prog = "main" /\ pc = "city" /\ ci > Len(cities)
    /\ pc' = "finally"
    /\ report' = << >>
    /\ NoAdapter
    /\ UNCHANGED << prog, cities, ci, di, headcount, pax, rows, sheet, nroutes, ri, r, todo,
                    csv, prior, launched, quits, writes, returned >>

\* A city that is skipped: a local, or a label no code can be read from
MainSkipCity ==
    /\ prog = "main" /\ pc = "city" /\ ci <= Len(cities)
    /\ LET city == cities[ci]
       IN  \/ /\ Contains(city, << "A", "c", "c", "r", "a" >>)
              /\ report' = << >>
           \/ /\ ~Contains(city, << "A", "c", "c", "r", "a" >>)
              /\ clean_code(city) = None
              /\ report' = << [ kind |-> "warning", city |-> city ] >>
    /\ ci' = ci + 1
    /\ NoAdapter
    /\ UNCHANGED << prog, pc, cities, di, headcount, pax, rows, sheet, nroutes, ri, r, todo,
                    csv, prior, launched, quits, writes, returned >>

\* A city that is queried: its headcount is read and clamped. int() of an empty
\* cell raises, outside the inner try: control goes to the finally block with
\* the exception pending.
MainCity ==
    /\ prog = "main" /\ pc = "city" /\ ci <= Len(cities)
    /\ ~Contains(cities[ci], << "A", "c", "c", "r", "a" >>)
    /\ clean_code(cities[ci]) # None
    /\ \/ /\ pc' = "finally_exc"
          /\ report' = << >>
          /\ UNCHANGED << di, headcount, pax >>
       \/ \E h \in Headcounts :
            /\ headcount' = h
            /\ pax' = ClampPax(h)
            /\ report' = << [ kind |-> "info", city |-> cities[ci], travellers |-> h ] >>
            /\ di' = 1
            /\ pc' = "dates"
    /\ NoAdapter
    /\ UNCHANGED << prog, cities, ci, rows, sheet, nroutes, ri, r, todo, csv, prior, launched,
                    quits, writes, returned >>

\* One pass of the inner loop: the URL is built, fetch_price is called, and its
\* quote is appended to rows or its exception is logged
MainFetch ==
    /\ prog = "main" /\ pc = "dates"
    /\ \E page \in ListingPages :
        \E res \in { fetch_price(page, make_url(clean_code(cities[ci]), DEPARTURE_DATES[di],
                                                 RETURN_DATE, pax)) } :
        \E row \in { QuoteRow(cities[ci], res.airline, DEPARTURE_DATES[di], pax, res.price) } :
            /\ trail' = << "get" >>
            /\ got' = [ func |-> "fetch_price", stage |-> page.stage,
                        page |-> BlankPage, exc |-> res.exc,
                        quotes |-> IF res.exc = "none" THEN << row >> ELSE << >>,
                        query |-> make_url(clean_code(cities[ci]), DEPARTURE_DATES[di],
                                           RETURN_DATE, pax) ]
            /\ IF res.exc = "none"
               THEN /\ rows' = Append(rows, row)
                    /\ returned' = Append(returned, row)
                    /\ report' = << [ kind |-> "info", city |-> cities[ci],
                                      dep |-> DEPARTURE_DATES[di] ] >>
               ELSE /\ report' = << [ kind |-> "error", city |-> cities[ci],
                                      dep |-> DEPARTURE_DATES[di], exc |-> res.exc ] >>
                    /\ UNCHANGED << rows, returned >>
    /\ IF di < Len(DEPARTURE_DATES)
       THEN /\ di' = di + 1
            /\ UNCHANGED << ci, pc >>
       ELSE /\ di' = 0
            /\ ci' = ci + 1
            /\ pc' = "city"
    /\ UNCHANGED << prog, cities, headcount, pax, sheet, nroutes, ri, r, todo, csv, prior,
                    launched, quits, writes >>

\* finally: driver.quit(); a pending exception then leaves main()
MainFinally ==
    /\ prog = "main" /\ pc \in { "finally", "finally_exc" }
    /\ quits' = quits + 1
    /\ trail' = << "quit" >>
    /\ got' = NoCall
    /\ report' = << [ kind |-> "info", text |-> "Browser closed" ] >>
    /\ pc' = IF pc = "finally" THEN "terminal" ELSE "raised"
    /\ UNCHANGED << prog, cities, ci, di, headcount, pax, rows, sheet, nroutes, ri, r, todo,
                    csv, prior, launched, writes, returned >>

\* After the loop: no rows, no write; else the sheet is replaced by the rows
MainWrite ==
    /\ prog = "main" /\ pc = "terminal"
    /\ IF rows = << >>
       THEN /\ report' = << [ kind |-> "error", text |-> "No data fetched" ] >>
            /\ UNCHANGED << sheet, writes >>
       ELSE /\ sheet' = rows
            /\ writes' = writes + 1
            /\ report' = << [ kind |-> "info", text |-> "Collected quote rows" ],
                            [ kind |-> "info", text |-> "FlightQuotes sheet overwritten" ] >>
    /\ pc' = "done"
    /\ NoAdapter
    /\ UNCHANGED << prog, cities, ci, di, headcount, pax, rows, nroutes, ri, r, todo, csv,
                    prior, launched, quits, returned >>

----------------------------------------------------------------------------
(* main1.py: run() *)

\* routes are loaded, the file is rewritten with the header line, make_driver():
\* the browser starts, or the run ends there
RunStart ==
    /\ prog = "main1" /\ pc = "start"
    /\ csv' = << HEADER >>
    /\ writes' = writes + 1
    /\ \E started \in BOOLEAN :
        IF started
        THEN /\ launched' = TRUE
             /\ ri' = 1
             /\ pc' = "route"
        ELSE /\ pc' = "raised"
             /\ UNCHANGED << launched, ri >>
    /\ report' = << >>
    /\ NoAdapter
    /\ UNCHANGED << prog, cities, ci, di, headcount, pax, rows, sheet, nroutes, r, todo,
                    prior, quits, returned >>

\* The outer loop is over
RunLoopEnd ==
    /\ prog = "main1" /\ pc = "route" /\ ri > nroutes
    /\ pc' = "quit"
    /\ report' = << >>
    /\ NoAdapter
    /\ UNCHANGED << prog, cities, ci, di, headcount, pax, rows, sheet, nroutes, ri, r, todo,
                    csv, prior, launched, quits, writes, returned >>

\* The outer loop takes the next route and reads r["airlines"]: a record without
\* the key raises KeyError, outside any try, and the run ends there
RunRoute ==
    /\ prog = "main1" /\ pc = "route" /\ ri <= nroutes
    /\ \E route \in RouteSet :
        /\ r' = route
        /\ IF "airlines" \notin route.has
           THEN /\ pc' = "raised"
                /\ UNCHANGED todo
           ELSE /\ todo' = route.airlines
                /\ pc' = "airline"
    /\ report' = << >>
    /\ NoAdapter
    /\ UNCHANGED << prog, cities, ci, di, headcount, pax, rows, sheet, nroutes, ri, csv,
                    prior, launched, quits, writes, returned >>

\* The inner loop is over: the outer loop goes on. r is bound again before it
\* is read again, and is forgotten here.
RunAirlinesEnd ==
    /\ prog = "main1" /\ pc = "airline" /\ todo = << >>
    /\ ri' = ri + 1
    /\ UNCHANGED todo
    /\ r' = NoRoute
    /\ pc' = "route"
    /\ report' = << >>
    /\ NoAdapter
    /\ UNCHANGED << prog, cities, ci, di, headcount, pax, rows, sheet, nroutes, csv, prior,
                    launched, quits, writes, returned >>

\* The csv_line of each quote of quotes[:3], for the route and the airline
CsvLines(route, airline, quotes) ==
    [ i \in 1..Len(First3(quotes)) |->
        CsvLine((route.origin \o << "-" >>) \o route.dest, airline,
                quotes[i].price, quotes[i].stops, quotes[i].duration) ]

\* except Exception as e: the report reads r['id']; a record without the key
\* raises KeyError in the handler, and the run ends there
RunExcept(airline, e) ==
    IF "id" \in r.has
    THEN /\ report' = << [ kind |-> "error", airline |-> airline, id |-> r.id, exc |-> e ] >>
         /\ todo' = Tail(todo)
         /\ UNCHANGED pc
    ELSE /\ report' = << >>
         /\ pc' = "raised"
         /\ UNCHANGED todo

\* An airline with no entry in AIRLINE_FUNCS: reported, and the loop goes on
RunSkip ==
    /\ prog = "main1" /\ pc = "airline" /\ todo # << >>
    /\ AIRLINE_FUNCS_get(Head(todo)) = "None"
    /\ report' = << [ kind |-> "skip", airline |-> Head(todo) ] >>
    /\ todo' = Tail(todo)
    /\ NoAdapter
    /\ UNCHANGED << prog, pc, cities, ci, di, headcount, pax, rows, sheet, nroutes, ri, r,
                    csv, prior, launched, quits, writes, returned >>

\* One pass of the inner loop for an airline that has an adapter: the adapter is
\* called; its quotes[:3] are appended to the file one by one (the file takes
\* every line), then the polite delay; an exception of the adapter goes to the
\* handler.
RunPair ==
    /\ prog = "main1" /\ pc = "airline" /\ todo # << >>
    /\ AIRLINE_FUNCS_get(Head(todo)) # "None"
    /\ \E airline \in { Head(todo) } :
       \E func \in { AIRLINE_FUNCS_get(airline) } :
       \E page \in PagesFor(func) :
       \E res \in { Invoke(func, page, r) } :
       \E lines \in { CsvLines(r, airline, res.quotes) } :
          /\ got' = [ func |-> func, stage |-> page.stage, page |-> BlankPage,
                      exc |-> res.exc,
                      quotes |-> res.quotes, query |-> res.query ]
          /\ IF res.exc # "none"
             THEN /\ trail' = res.trail
                  /\ UNCHANGED << csv, writes, returned >>
                  /\ RunExcept(airline, res.exc)
             ELSE /\ returned' = returned \o lines
                  /\ csv' = csv \o lines
                  /\ writes' = writes + Len(lines)
                  /\ trail' = Append(res.trail, "sleep")
                  /\ report' = << >>
                  /\ todo' = Tail(todo)
                  /\ UNCHANGED pc
    /\ UNCHANGED << prog, cities, ci, di, headcount, pax, rows, sheet, nroutes, ri, r,
                    prior, launched, quits >>

\* driver.quit() after the loops
RunQuit ==
    /\ prog = "main1" /\ pc = "quit"
    /\ quits' = quits + 1
    /\ trail' = << "quit" >>
    /\ got' = NoCall
    /\ report' = << >>
    /\ pc' = "done"
    /\ UNCHANGED << prog, cities, ci, di, headcount, pax, rows, sheet, nroutes, ri, r, todo,
                    csv, prior, launched, writes, returned >>

----------------------------------------------------------------------------
(* An adapter called on its own, with a route record and a started browser *)

AdapterCall ==
    /\ prog = "adapter" /\ pc = "start"
    /\ \E func \in { "search_ethiopian", "search_kenya" }, route \in DirectRoutes,
          page \in SitePages :
        \E res \in { Invoke(func, page, route) } :
            /\ r' = route
            /\ got' = [ func |-> func, stage |-> page.stage, page |-> page,
                        exc |-> res.exc,
                        quotes |-> res.quotes, query |-> res.query ]
            /\ trail' = res.trail
            /\ returned' = res.quotes
    /\ launched' = TRUE
    /\ report' = << >>
    /\ pc' = "done"
    /\ UNCHANGED << prog, cities, ci, di, headcount, pax, rows, sheet, nroutes, ri, todo,
                    csv, prior, quits, writes >>

----------------------------------------------------------------------------

Next ==
    \/ MainStart
    \/ MainLoopEnd
    \/ MainSkipCity
    \/ MainCity
    \/ MainFetch
    \/ MainFinally
    \/ MainWrite
    \/ RunStart
    \/ RunLoopEnd
    \/ RunRoute
    \/ RunAirlinesEnd
    \/ RunSkip
    \/ RunPair
    \/ RunQuit
    \/ AdapterCall

Spec == Init /\ [][Next]_vars

----------------------------------------------------------------------------
(* The properties *)

Last(s) == s[Len(s)]

Range(s) == { s[i] : i \in DOMAIN s }

\* The run is over: it returned, or an exception left it
Ended == pc \in { "done", "raised" }

\* The data rows of the sink: the sheet, or the file's lines after the header line
SinkRows == IF prog = "main" THEN sheet ELSE Tail(csv)

\* What the sink holds: the sheet, or the file
Sink == IF prog = "main" THEN sheet ELSE csv

\* C1: in both orchestrators, a browser that was launched is released exactly
\* once before the run ends, on every path: normal completion, per-call failures,
\* and an exception that leaves the iteration.
C1_ReleasedOnce ==
    (prog \in { "main", "main1" } /\ launched) =>
        /\ quits <= 1
        /\ Ended => quits = 1

\* main.main alone releases the browser once on every path (the try/finally)
MainReleasedOnce ==
    (prog = "main" /\ launched) => (quits <= 1 /\ (Ended => quits = 1))

\* C2: an exception raised by an adapter call is caught at the call, reported with
\* the identity of the pair, and counts as no quote; the run goes on.
C2_FailureContained ==
    (prog \in { "main", "main1" } /\ got.func # "none" /\ got.exc # "none") =>
        /\ pc # "raised"
        /\ got.quotes = << >>
        /\ Len(report) = 1
        /\ report[1].kind = "error"
        /\ report[1].exc = got.exc

\* main.main alone contains every exception of fetch_price
MainFailureContained ==
    (prog = "main" /\ got.func # "none" /\ got.exc # "none") =>
        (pc # "raised" /\ Len(report) = 1 /\ report[1].kind = "error")

\* C3: a run that produced no quote reports "no data fetched" and writes nothing
\* to its sink: the data a previous run left there is unchanged.
C3_NoQuoteNoWrite ==
    (prog \in { "main", "main1" } /\ pc = "done" /\ returned = << >> /\ prior # << >>) =>
        /\ writes = 0
        /\ Sink = prior
        /\ report = << [ kind |-> "error", text |-> "No data fetched" ] >>

\* main.main alone leaves the sheet alone and reports when it has no row
MainNoQuoteNoWrite ==
    (prog = "main" /\ pc = "done" /\ returned = << >>) =>
        /\ writes = 0
        /\ sheet = prior
        /\ report = << [ kind |-> "error", text |-> "No data fetched" ] >>

\* C4: at the end of a run in which a call succeeded, the data rows of the sink
\* are the quotes the successful calls returned, no more and no less.
C4_SinkHoldsReturned ==
    (prog \in { "main", "main1" } /\ Ended /\ returned # << >>) => SinkRows = returned

\* A run that returns leaves the returned quotes in the sink; so does a run
\* of main1.run that an exception leaves
ReturnedRunSinkHoldsReturned ==
    (prog \in { "main", "main1" } /\ returned # << >>
        /\ (pc = "done" \/ (prog = "main1" /\ pc = "raised"))) =>
        SinkRows = returned

\* The quote of one result entry, or nothing when the entry fails
Kept(q) == IF q.exc = "none" THEN << q.val >> ELSE << >>

RECURSIVE KeptQuotes(_, _)
\* The quotes of the entries that convert, in the order of the entries
KeptQuotes(func, cards) ==
    IF cards = << >> THEN << >>
    ELSE Kept(IF func = "search_kenya" THEN kenya_card(Head(cards))
              ELSE ethiopian_card(Head(cards)))
         \o KeptQuotes(func, Tail(cards))

\* C5: in search_ethiopian and search_kenya, an entry that fails is dropped alone:
\* the call does not fail and returns the other entries among the first three.
C5_EntryFailureIsLocal ==
    (prog = "adapter" /\ pc = "done" /\ got.stage = "cards") =>
        /\ got.exc = "none"
        /\ got.quotes = KeptQuotes(got.func, First3(got.page.cards))

\* Another attempt is about to start
NextAttemptPending ==
    \/ prog = "main" /\ pc = "dates"
    \/ prog = "main1" /\ pc = "airline" /\ todo # << >> /\ Head(todo) \in DOMAIN AIRLINE_FUNCS

\* C6: after an attempt that reached the network, failed or not, the polite delay
\* is waited before the next attempt starts; a skipped airline costs no delay.
C6_PoliteDelay ==
    /\ ("get" \in Range(trail) /\ NextAttemptPending) => Last(trail) = "sleep"
    /\ (report # << >> /\ report[1].kind = "skip") => "sleep" \notin Range(trail)

\* C7: in main1.run the adapter is looked up by the exact name; an airline with
\* no entry is reported and skipped: no adapter is called, the browser is not
\* used, nothing is written, nothing is raised, and the loop goes on with the next
\* airline of the route. An airline with an entry gets the adapter of its entry.
C7_UnmappedSkipped ==
    [][ (prog = "main1" /\ pc = "airline" /\ todo # << >>) =>
          IF Head(todo) \notin DOMAIN AIRLINE_FUNCS
          THEN /\ report' = << [ kind |-> "skip", airline |-> Head(todo) ] >>
               /\ got' = NoCall
               /\ trail' = << >>
               /\ csv' = csv /\ writes' = writes /\ returned' = returned
               /\ pc' = "airline"
               /\ todo' = Tail(todo)
               /\ r' = r /\ ri' = ri /\ quits' = quits
          ELSE got'.func = AIRLINE_FUNCS[Head(todo)] ]_vars

\* An airline named in another case was skipped and another airline follows
C7_Witness ==
    /\ prog = "main1" /\ pc = "airline"
    /\ report = << [ kind |-> "skip", airline |-> "kenya airways" ] >>
    /\ got = NoCall
    /\ todo # << >>

\* The travellers asked for: the headcount of the city, or the adults of the route
Travellers == IF prog = "main" THEN headcount ELSE r.adults

\* C8: the passenger count of every query, and of the quote, is min(h, 9).
C8_PaxClamped ==
    (got.func # "none" /\ got.query.site # "none") =>
        /\ got.query.adults = (IF Travellers < 9 THEN Travellers ELSE 9)
        /\ (prog = "main" /\ got.quotes # << >>) =>
              got.quotes[1].SeatsCapable = (IF Travellers < 9 THEN Travellers ELSE 9)

\* main.main alone asks and records min(headcount, 9)
MainPaxClamped ==
    (prog = "main" /\ got.func # "none") =>
        /\ got.query.adults = (IF headcount < 9 THEN headcount ELSE 9)
        /\ got.quotes # << >> =>
              got.quotes[1].SeatsCapable = (IF headcount < 9 THEN headcount ELSE 9)

\* C9: a call whose wait for the results runs out returns the empty list, and no
\* exception leaves the adapter.
C9_TimeoutGivesEmpty ==
    (got.func \in { "fetch_price", "search_ethiopian", "search_kenya" }
        /\ got.stage \in { "timeout", "results_timeout" }) =>
        (got.exc = "none" /\ got.quotes = << >>)

\* The date of the fetch_price call that was just made
DateFetched == DEPARTURE_DATES[IF pc = "dates" THEN di - 1 ELSE Len(DEPARTURE_DATES)]

\* The cities main.main has gone through and did not skip
Searched ==
    { k \in 1..(ci - 1) : /\ ~Contains(cities[k], << "A", "c", "c", "r", "a" >>)
                          /\ clean_code(cities[k]) # None }

\* The calls of fetch_price main.main has made
CallsMade ==
    Len(DEPARTURE_DATES) * Cardinality(Searched) + (IF pc = "dates" THEN di - 1 ELSE 0)

\* C10 (as stated): with several candidate departure dates and a site that gives
\* one result to every call, a route gets one quote, which carries the first
\* candidate date and the return date; later dates give no quote.
C10_OneQuotePerRoute ==
    /\ (prog = "main" /\ Len(rows) = CallsMade) =>
          /\ \A i \in DOMAIN rows :
                rows[i].ArriveDate = DEPARTURE_DATES[1] /\ rows[i].ReturnDate = RETURN_DATE
          /\ \A i, j \in DOMAIN rows : rows[i].City = rows[j].City => i = j
    /\ (prog \in { "main1", "adapter" } /\ got.query.site # "none") =>
          (got.query.dep = r.depart[1] /\ got.query.ret = r.return)
    /\ (prog = "adapter" /\ got.exc = "none" /\ Len(got.page.cards) = 1) =>
          Len(got.quotes) = 1

\* C10 (amended): search_ethiopian and search_kenya ask the site once per call, for
\* the first candidate date and the return date of the route, and a page of one
\* good entry gives one quote; main.main calls fetch_price once for each candidate
\* date, and each call that succeeds adds one quote, which carries the date of
\* that call, RETURN_DATE and the city; no two quotes share a city and a date.
C10_QuotePerCall ==
    /\ (prog \in { "main1", "adapter" } /\ got.query.site # "none") =>
          (got.query.dep = r.depart[1] /\ got.query.ret = r.return)
    /\ (got.func \in { "search_ethiopian", "search_kenya" } /\ got.exc = "none"
            /\ prog = "adapter" /\ Len(got.page.cards) = 1) =>
          Len(got.quotes) = 1
    /\ (prog = "main" /\ got.func = "fetch_price") =>
          /\ got.query.dep = RemoveChar(DateFetched, "-")
          /\ got.query.ret = RemoveChar(RETURN_DATE, "-")
          /\ got.exc = "none" =>
                /\ rows # << >>
                /\ got.quotes = << Last(rows) >>
                /\ Last(rows).ArriveDate = DateFetched
                /\ Last(rows).ReturnDate = RETURN_DATE
                /\ Last(rows).City = cities[IF pc = "dates" THEN ci ELSE ci - 1]
    /\ prog = "main" =>
          /\ \A i, j \in DOMAIN rows :
                (rows[i].City = rows[j].City /\ rows[i].ArriveDate = rows[j].ArriveDate)
                    => i = j
          /\ Len(rows) <= CallsMade

\* A city has a quote for each of two candidate dates, after calls that succeeded
C10_Witness ==
    /\ prog = "main" /\ got.func = "fetch_price" /\ got.exc = "none"
    /\ Len(rows) >= 2 /\ Len(rows) = CallsMade
    /\ rows[Len(rows) - 1].City = Last(rows).City
    /\ rows[Len(rows) - 1].ArriveDate = DEPARTURE_DATES[1]
    /\ Last(rows).ArriveDate = DEPARTURE_DATES[2]

====
